---- MODULE Spec2Model ----
(***************************************************************************)
(* django-historicalrecords: a model of HistoricalRecords (history/        *)
(* models.py) and HistoryManager (history/manager.py).                     *)
(*                                                                         *)
(* One tracked primary type is modelled.  Its fields are the ones of the   *)
(* test models PreserveFkTo.../ConvertFkTo... (test_app/models.py): the    *)
(* primary key id, BaseModel's characters and integer, and a foreign key   *)
(* fk to a parent type.  The storage layer is the one the code is written  *)
(* against: primary keys and history ids come from sequences, a primary    *)
(* row's foreign key is enforced, deleting a parent cascades to the rows   *)
(* that hold a real foreign key to it, and the post_delete hooks of a      *)
(* cascade run after the rows are gone (the case create_historical_record  *)
(* guards against).                                                        *)
(***************************************************************************)
EXTENDS Integers, Sequences, FiniteSets, TLC

\* ------------------------------------------------------------ bounds ----
MaxPk == 1          \* primary keys handed out by the sequence: 1..MaxPk
MaxHist == 3        \* history ids handed out by the sequence: 1..MaxHist

\* --------------------------------------------------- program constants ----
PRESERVE == 1
CONVERT == 2

CREATED == "+"
MODIFIED == "~"
DELETED == "-"

\* None, as the value of an editor reference; a primary key of None is 0.
None == "None"
NoPk == 0
\* The marker of a keyword argument that was not passed.
NoKw == "<absent>"

\* Field defaults of BaseModel.
DefaultCharacters == ""
DefaultInteger == -1
\* None, as the value of a date field: no reading of the clock.
NoDate == -1

\* The values a caller gives the fields, the rows of the referenced type,
\* and the in-memory instances (python variables) of the tracked type.
CharactersValues == {"", "a"}
IntegerValues == {DefaultInteger, 0}
ParentIds == {1}
Insts == {1}
Pks == 1..MaxPk

\* The instants a query can ask about, and the instants at which the clock
\* is read by an insert: between two readings lies an instant.
Times == 0..3
Clock == {0, 2}

VARIABLES
    fields,           \* HistoricalRecords._fields: NoFields or FieldList(names)
    key_conversions,  \* HistoricalRecords.key_conversions: field name -> policy
    require_editor,   \* HistoricalRecords.require_editor
    users,            \* the User rows that exist (possible editors)
    parents,          \* primary keys of the live rows of the referenced type
    objects,          \* primary storage of the tracked type: live pk -> row
    history,          \* the rows of the HistoryEntry table
    pk_seq,           \* last primary key handed out
    history_seq,      \* last history_id handed out
    now,              \* the latest reading of the clock, datetime.now()
    inst,             \* the in-memory instances: slot -> instance
    last,             \* the last call: its name, the pk it acted on, what it raised
    REGISTRY,         \* HistoricalRecords.REGISTRY: type -> registered manager name
    app_errors,       \* AppCache().app_errors: the types flagged with an error
    model_class,      \* what finalize has installed on each type's class
    unique_fields,    \* the names of the fields declared with unique=True
    date_fields,      \* the auto-populated date fields declared on the type
    writers           \* concurrent writers: where each is in its save or delete

vars == << fields, key_conversions, require_editor, users, parents, objects,
           history, pk_seq, history_seq, now, inst, last,
           REGISTRY, app_errors, model_class, unique_fields, date_fields,
           writers >>

config == << fields, key_conversions, require_editor, users,
             REGISTRY, app_errors, model_class, unique_fields, date_fields >>

\* The fields of the test models with a foreign key, in declaration order:
\* the key, BaseModel's characters and integer, and fk.
BaseModelFields ==
    << [name |-> "id",         attname |-> "id",         pk |-> TRUE,  fk |-> FALSE,
        auto_now |-> FALSE, auto_now_add |-> FALSE],
       [name |-> "characters", attname |-> "characters", pk |-> FALSE, fk |-> FALSE,
        auto_now |-> FALSE, auto_now_add |-> FALSE],
       [name |-> "integer",    attname |-> "integer",    pk |-> FALSE, fk |-> FALSE,
        auto_now |-> FALSE, auto_now_add |-> FALSE],
       [name |-> "fk",         attname |-> "fk_id",      pk |-> FALSE, fk |-> TRUE,
        auto_now |-> FALSE, auto_now_add |-> FALSE] >>

\* The DateTimeFields of DateFieldTestModel.
AutoDateFields ==
    << [name |-> "auto_now_datetime", attname |-> "auto_now_datetime",
        pk |-> FALSE, fk |-> FALSE, auto_now |-> TRUE, auto_now_add |-> FALSE],
       [name |-> "auto_now_add_datetime", attname |-> "auto_now_add_datetime",
        pk |-> FALSE, fk |-> FALSE, auto_now |-> FALSE, auto_now_add |-> TRUE] >>

\* model._meta.fields of the tracked type, in declaration order.
ModelFields == BaseModelFields \o date_fields

AttNames == {ModelFields[k].attname : k \in 1..Len(ModelFields)}

\* f with key k bound to v.
Bind(f, k, v) == [j \in DOMAIN f \cup {k} |-> IF j = k THEN v ELSE f[j]]
\* f without the keys in ks.
Drop(f, ks) == [j \in DOMAIN f \ ks |-> f[j]]

\* ------------------------------------------------ tracked field set ----
\* The values of the fields argument: None (the default), or a list of
\* names.
NoFields == [given |-> FALSE, names |-> {}]
FieldList(names) == [given |-> TRUE, names |-> names]

\* not self._fields: None and the empty list are falsy.
not_fields == ~fields.given \/ fields.names = {}

\* A variant of get_important_fields: the primary key is not added.
get_important_fields_named_only ==
    SelectSeq(ModelFields,
              LAMBDA f : not_fields \/ f.name \in fields.names)

\* get_important_fields: the primary key, every field when _fields is
\* falsy, else the fields named in _fields.
get_important_fields ==
    SelectSeq(ModelFields,
              LAMBDA f : f.pk \/ not_fields \/ f.name \in fields.names)

get_important_field_names ==
    LET fs == get_important_fields
    IN  [k \in 1..Len(fs) |-> fs[k].attname]

\* The same names as a set.
important_field_names ==
    LET names == get_important_field_names
    IN  {names[k] : k \in 1..Len(names)}

\* ----------------------------------------------------------- instances ----
\* A field's value on an instance built without a value for it.
FieldDefault(a) ==
    CASE a = "characters" -> DefaultCharacters
      [] a = "integer"    -> DefaultInteger
      [] a \in {AutoDateFields[k].attname : k \in 1..Len(AutoDateFields)} -> NoDate
      [] OTHER            -> NoPk

\* new_init: Model(editor=..., **values); the fields that values does not
\* give get their defaults, _history_editor is the editor keyword or None.
new_init(values, editor) ==
    LET given == DOMAIN values
    IN  [a \in AttNames \cup {"_history_editor"} |->
            IF a = "_history_editor" THEN editor
            ELSE IF a \in given THEN values[a]
            ELSE FieldDefault(a)]

\* HistoricalObjectDescriptor.__get__: primary_model(**values) over the
\* tracked field values of one history entry.
history_object(version) ==
    LET names == important_field_names
    IN  new_init([a \in names |-> version[a]], None)

\* The instance that objects.get(pk=pk) loads from a live row.
FromRow(pk) ==
    new_init([a \in AttNames |-> IF a = "id" THEN pk ELSE objects[pk][a]], None)

\* The row that saving an instance writes.
RowOf(instance) ==
    [a \in AttNames \ {"id"} |-> instance[a]]

\* ------------------------------------------------------ HistoryManager ----
\* _filter_queryset_by_pk over the whole table.
filter_queryset_by_pk(qs, pk) == {e \in qs : e.id = pk}

\* A variant of First: the entry of the lowest history_id.
First_ascending(qs) == CHOOSE e \in qs : \A o \in qs : o.history_id >= e.history_id

\* qs[0] under Meta.ordering = ['-history_id'].
First(qs) == CHOOSE e \in qs : \A o \in qs : o.history_id <= e.history_id

NotFound == [exc |-> "DoesNotExist"]
Found(obj) == [exc |-> "none", obj |-> obj]

\* A variant of most_recent: the queryset is not filtered by pk.
most_recent_unfiltered(pk) ==
    IF history = {} THEN NotFound ELSE Found(history_object(First(history)))

most_recent(pk) ==
    LET qs == filter_queryset_by_pk(history, pk)
    IN  IF qs = {} THEN NotFound ELSE Found(history_object(First(qs)))

\* most_recent() on an instance's manager: pk = self.instance.pk.
instance_most_recent(instance) == most_recent(instance["id"])

\* A variant of as_of: history_date__lt instead of history_date__lte.
as_of_before(date, pk, restore) ==
    LET qs == {e \in filter_queryset_by_pk(history, pk) : e.history_date < date}
    IN  IF qs = {} THEN NotFound
        ELSE IF First(qs).history_type = DELETED /\ ~restore THEN NotFound
        ELSE Found(history_object(First(qs)))

\* A variant of as_of: no DELETED check.
as_of_any_type(date, pk, restore) ==
    LET qs == {e \in filter_queryset_by_pk(history, pk) : e.history_date <= date}
    IN  IF qs = {} THEN NotFound ELSE Found(history_object(First(qs)))

as_of(date, pk, restore) ==
    LET qs == {e \in filter_queryset_by_pk(history, pk) : e.history_date <= date}
    IN  IF qs = {} THEN NotFound
        ELSE IF First(qs).history_type = DELETED /\ ~restore THEN NotFound
        ELSE Found(history_object(First(qs)))

\* A HistoryManager: reached through the type (instance None) or through
\* an instance, of which only the pk is used.
Unscoped == [scoped |-> FALSE, pk |-> NoPk]
Scoped(instance) == [scoped |-> TRUE, pk |-> instance["id"]]

\* get_query_set: filtered by the instance's pk when there is an instance.
get_query_set(manager) ==
    IF manager.scoped THEN filter_queryset_by_pk(history, manager.pk)
    ELSE history

\* What a property of the manager gives: the exception and the number of
\* queries it ran, with the value when it returns.
UsageError == [exc |-> "TypeError", queries |-> 0]
Value(v) == [exc |-> "none", queries |-> 1, value |-> v]
Among(vs) == [exc |-> "none", queries |-> 1, among |-> vs]
EmptyResult == [exc |-> "IndexError", queries |-> 1]

\* aggregate(Min('history_date')) and aggregate(Max('history_date')): None
\* over no rows.
MinDate(qs) ==
    IF qs = {} THEN None
    ELSE CHOOSE t \in {e.history_date : e \in qs} :
            \A e \in qs : t <= e.history_date
MaxDate(qs) ==
    IF qs = {} THEN None
    ELSE CHOOSE t \in {e.history_date : e \in qs} :
            \A e \in qs : t >= e.history_date

\* A variant of created_date: no check of the instance.
created_date_unchecked(manager) == Value(MinDate(get_query_set(manager)))

created_date(manager) ==
    IF ~manager.scoped THEN UsageError
    ELSE Value(MinDate(get_query_set(manager)))

\* order_by('history_date')[0].history_editor: the order among entries of
\* one history_date is the storage's, so any of them can come first.
created_by(manager) ==
    LET qs == get_query_set(manager)
    IN  IF ~manager.scoped THEN UsageError
        ELSE IF qs = {} THEN EmptyResult
        ELSE Among({e.history_editor : e \in
                       {e \in qs : e.history_date = MinDate(qs)}})

last_modified_date(manager) ==
    IF ~manager.scoped THEN UsageError
    ELSE Value(MaxDate(get_query_set(manager)))

\* A variant of last_modified_by: the entry of the largest history_id.
last_modified_by_sequence(manager) ==
    LET qs == get_query_set(manager)
    IN  IF ~manager.scoped THEN UsageError
        ELSE IF qs = {} THEN EmptyResult
        ELSE Among({First(qs).history_editor})

\* order_by('-history_date')[0].history_editor.
last_modified_by(manager) ==
    LET qs == get_query_set(manager)
    IN  IF ~manager.scoped THEN UsageError
        ELSE IF qs = {} THEN EmptyResult
        ELSE Among({e.history_editor : e \in
                       {e \in qs : e.history_date = MaxDate(qs)}})

\* A variant of get_or_restore: the history only.
get_or_restore_history_only(pk) == most_recent(pk)

get_or_restore(pk) ==
    IF pk \in DOMAIN objects THEN Found(FromRow(pk)) ELSE most_recent(pk)

\* ------------------------------------------------------- HistoryEntry ----
\* The result of previous_entry: an entry, or None after the IndexError.
NoEntry == [exc |-> "IndexError"]

\* None as a HistoryChange's from_value; a value v is held as << v >>.
NoValue == << >>

\* HistoryChange(name, from_value, to_value, verbose_name)
HistoryChange(name, from_value, to_value, verbose_name) ==
    [name |-> name, from_value |-> from_value, to_value |-> to_value,
     verbose_name |-> verbose_name]

\* get_verbose_name(model, field_name): the verbose_name of the field of
\* that name (the name itself, for the names without an underscore), None
\* when no field has the name, as for the attname of a foreign key.
get_verbose_name(field_name) ==
    IF \E k \in 1..Len(ModelFields) : ModelFields[k].name = field_name
    THEN field_name ELSE None

\* A variant of previous_entry: the entries of every identity are searched.
previous_entry_any_identity(self) ==
    LET qs == {e \in history : e.history_id < self.history_id}
    IN  IF qs = {} THEN NoEntry ELSE Found(First(qs))

\* previous_entry: self.history_object.history, the manager of the instance
\* rebuilt from the entry, ordered by -history_id and filtered to
\* history_id < self.history_id; its first row, or None.
previous_entry(self) ==
    LET qs == {e \in get_query_set(Scoped(history_object(self))) :
                  e.history_id < self.history_id}
    IN  IF qs = {} THEN NoEntry ELSE Found(First(qs))

\* modified_fields: against the previous entry, a HistoryChange for each
\* important field name, in order, whose values differ; without one, a
\* HistoryChange from None for every important field name.
modified_fields(self) ==
    LET prev == previous_entry(self)
        names == get_important_field_names
        modified == SelectSeq(names, LAMBDA field : prev.obj[field] # self[field])
    IN  IF prev.exc = "none"
        THEN [k \in 1..Len(modified) |->
                 HistoryChange(modified[k], << prev.obj[modified[k]] >>,
                               self[modified[k]], get_verbose_name(modified[k]))]
        ELSE [k \in 1..Len(names) |->
                 HistoryChange(names[k], NoValue, self[names[k]],
                               get_verbose_name(names[k]))]

\* -------------------------------------------------- schema derivation ----
\* key_conversions.get(name, CONVERT)
KeyConversion(name) ==
    IF name \in DOMAIN key_conversions THEN key_conversions[name] ELSE CONVERT

\* The key conversion of a field: key_conversions.get(field.name, CONVERT).
conversion(f) == KeyConversion(f.name)

\* A value of the conversion-policy map that is neither CONVERT nor PRESERVE.
OtherConversion == 3

\* The Field object of a declared field: its class, and the options that
\* copy_fields reads or writes.  Field.unique is _unique or primary_key; a
\* ForeignKey is indexed, and its rel carries the related_name.
Field(f) ==
    [name |-> f.name,
     class |-> IF f.pk THEN "AutoField"
               ELSE IF f.fk THEN "ForeignKey"
               ELSE IF f.name = "characters" THEN "CharField"
               ELSE IF f.auto_now \/ f.auto_now_add THEN "DateTimeField"
               ELSE "IntegerField",
     primary_key |-> f.pk,
     _unique |-> f.name \in unique_fields,
     db_index |-> f.fk,
     auto_now |-> f.auto_now,
     auto_now_add |-> f.auto_now_add,
     related_name |-> IF f.fk THEN << "rel" >> ELSE << >>]

\* field.rel.to._meta.pk of the referenced type: its AutoField id.
RelatedPk ==
    [name |-> "id", class |-> "AutoField", primary_key |-> TRUE,
     _unique |-> FALSE, db_index |-> FALSE, auto_now |-> FALSE,
     auto_now_add |-> FALSE, related_name |-> << >>]

\* A variant of copy_field: primary_key and unique are left as declared.
copy_field_as_declared(f) ==
    LET field == Field(f)
        keyed == IF field.class # "ForeignKey" THEN field
                 ELSE IF conversion(f) = CONVERT
                 THEN [RelatedPk EXCEPT !.name = f.attname]
                 ELSE [field EXCEPT !.related_name = Append(@, "_historical")]
        plain == IF keyed.class = "AutoField"
                 THEN [keyed EXCEPT !.class = "IntegerField"] ELSE keyed
    IN  IF plain.class = "DateTimeField"
        THEN [plain EXCEPT !.auto_now = FALSE, !.auto_now_add = FALSE]
        ELSE plain

\* A variant of copy_field: auto_now and auto_now_add are left as declared.
copy_field_auto_as_declared(f) ==
    LET field == Field(f)
        keyed == IF field.class # "ForeignKey" THEN field
                 ELSE IF conversion(f) = CONVERT
                 THEN [RelatedPk EXCEPT !.name = f.attname]
                 ELSE [field EXCEPT !.related_name = Append(@, "_historical")]
        plain == IF keyed.class = "AutoField"
                 THEN [keyed EXCEPT !.class = "IntegerField"] ELSE keyed
    IN  IF plain.primary_key \/ plain._unique
        THEN [plain EXCEPT !.primary_key = FALSE, !._unique = FALSE,
                           !.db_index = TRUE]
        ELSE plain

\* The body of copy_fields' loop for a field whose conversion is valid: a
\* CONVERTed ForeignKey becomes a copy of the referenced type's primary key
\* under the foreign key's attname, a PRESERVEd one gets the related_name
\* suffix; an AutoField becomes an IntegerField; a date field loses auto_now
\* and auto_now_add; a primary key or unique field becomes a non-unique
\* indexed one.
copy_field(f) ==
    LET field == Field(f)
        keyed == IF field.class # "ForeignKey" THEN field
                 ELSE IF conversion(f) = CONVERT
                 THEN [RelatedPk EXCEPT !.name = f.attname]
                 ELSE [field EXCEPT !.related_name = Append(@, "_historical")]
        plain == IF keyed.class = "AutoField"
                 THEN [keyed EXCEPT !.class = "IntegerField"] ELSE keyed
        dated == IF plain.class = "DateTimeField"
                 THEN [plain EXCEPT !.auto_now = FALSE, !.auto_now_add = FALSE]
                 ELSE plain
    IN  IF dated.primary_key \/ dated._unique
        THEN [dated EXCEPT !.primary_key = FALSE, !._unique = FALSE,
                           !.db_index = TRUE]
        ELSE dated

\* A variant of copy_fields: a value that is neither policy is taken as
\* PRESERVE.
copy_fields_lenient ==
    LET fs == get_important_fields
        copies == {copy_field(fs[k]) : k \in 1..Len(fs)}
    IN  [exc |-> "none",
         fields |-> [n \in {c.name : c \in copies} |->
                        CHOOSE c \in copies : c.name = n]]

\* copy_fields: the copies of the important fields by name, or ValueError
\* when an important ForeignKey's conversion is neither CONVERT nor PRESERVE.
copy_fields ==
    LET fs == get_important_fields
        copies == {copy_field(fs[k]) : k \in 1..Len(fs)}
    IN  IF \E k \in 1..Len(fs) :
              fs[k].fk /\ conversion(fs[k]) \notin {CONVERT, PRESERVE}
        THEN [exc |-> "ValueError"]
        ELSE [exc |-> "none",
              fields |-> [n \in {c.name : c \in copies} |->
                             CHOOSE c \in copies : c.name = n]]

\* ----------------------------------------------------- change capture ----
\* A variant of create_historical_record: no dereference of PRESERVEd keys.
create_historical_record_unguarded(instance, editor, type, referenced) ==
    [exc |-> "none",
     attrs |-> [a \in important_field_names \cup {"history_type", "history_editor"} |->
                  CASE a = "history_type"   -> type
                    [] a = "history_editor" -> editor
                    [] OTHER                -> instance[a]]]

\* create_historical_record up to manager.create: the attributes of the new
\* entry, or HistoricalIntegrityError when a tracked PRESERVEd foreign key
\* does not dereference.  referenced is the set of live parent rows.
create_historical_record(instance, editor, type, referenced) ==
    LET fs == get_important_fields
        dangling == \E k \in 1..Len(fs) :
                        /\ fs[k].fk
                        /\ conversion(fs[k]) = PRESERVE
                        /\ instance[fs[k].attname] # NoPk
                        /\ instance[fs[k].attname] \notin referenced
        names == important_field_names
    IN  IF dangling THEN [exc |-> "HistoricalIntegrityError"]
        ELSE [exc |-> "none",
              attrs |-> [a \in names \cup {"history_type", "history_editor"} |->
                           CASE a = "history_type"   -> type
                             [] a = "history_editor" -> editor
                             [] OTHER                -> instance[a]]]

\* A variant of create: the new entry replaces the identity's entries.
create_replacing(hs, attrs, date) ==
    [history |-> {e \in hs.history : e.id # attrs.id} \cup
        {[a \in DOMAIN attrs \cup {"history_id", "history_date"} |->
            CASE a = "history_id"   -> hs.history_seq + 1
              [] a = "history_date" -> date
              [] OTHER              -> attrs[a]]},
     history_seq |-> hs.history_seq + 1]

\* manager.create: the insert assigns history_id from the sequence and
\* history_date = datetime.now() (auto_now_add), the clock reading date; a
\* field of the history model that has auto_now or auto_now_add is set by
\* its pre_save to the reading as well.  hs is [history, history_seq].
create(hs, attrs, date) ==
    LET model == copy_fields
        auto(a) == /\ model.exc = "none"
                   /\ a \in DOMAIN model.fields
                   /\ model.fields[a].auto_now \/ model.fields[a].auto_now_add
    IN  [history |-> hs.history \cup
            {[a \in DOMAIN attrs \cup {"history_id", "history_date"} |->
                CASE a = "history_id"   -> hs.history_seq + 1
                  [] a = "history_date" -> date
                  [] auto(a)            -> date
                  [] OTHER              -> attrs[a]]},
         history_seq |-> hs.history_seq + 1]

\* A variant of post_save: an entry only when the identity has none yet.
post_save_first_only(instance, created, date) ==
    LET hs == [history |-> history, history_seq |-> history_seq]
        rec == create_historical_record(instance, instance["_history_editor"],
                   IF created THEN CREATED ELSE MODIFIED, parents)
    IN  IF most_recent(instance.id).exc = "DoesNotExist"
        THEN create(hs, rec.attrs, date) ELSE hs

\* A variant of post_save: an entry on every save.
post_save_always(instance, created, date) ==
    LET hs == [history |-> history, history_seq |-> history_seq]
        rec == create_historical_record(instance, instance["_history_editor"],
                   IF created THEN CREATED ELSE MODIFIED, parents)
    IN  create(hs, rec.attrs, date)

\* A variant of post_save: the tag follows the history, not the created flag.
post_save_tag_by_history(instance, created, date) ==
    LET hs == [history |-> history, history_seq |-> history_seq]
        mr == most_recent(instance.id)
        names == get_important_field_names
        save == IF mr.exc = "DoesNotExist" THEN TRUE
                ELSE \E k \in 1..Len(names) :
                        instance[names[k]] # mr.obj[names[k]]
        rec == create_historical_record(instance, instance["_history_editor"],
                   IF mr.exc = "DoesNotExist" THEN CREATED ELSE MODIFIED, parents)
    IN  IF save THEN create(hs, rec.attrs, date) ELSE hs

\* A variant of post_save: no entry is written.
post_save_nothing(instance, created, date) ==
    [history |-> history, history_seq |-> history_seq]

\* post_save: write an entry when there is no most recent entry or a
\* tracked field differs from it; tagged by the created flag of the signal.
post_save(instance, created, date) ==
    LET hs == [history |-> history, history_seq |-> history_seq]
        mr == most_recent(instance.id)
        names == get_important_field_names
        save == IF mr.exc = "DoesNotExist" THEN TRUE
                ELSE \E k \in 1..Len(names) :
                        instance[names[k]] # mr.obj[names[k]]
        rec == create_historical_record(instance, instance["_history_editor"],
                   IF created THEN CREATED ELSE MODIFIED, parents)
    IN  IF save THEN create(hs, rec.attrs, date) ELSE hs

\* A variant of post_delete: no entry.
post_delete_nothing(hs, instance, referenced, date) == hs

\* A variant of post_delete: the entry copies the identity's most recent
\* entry instead of the instance.
post_delete_last_entry(hs, instance, referenced, date) ==
    LET qs == filter_queryset_by_pk(hs.history, instance["id"])
    IN  IF qs = {} THEN hs
        ELSE create(hs,
                    [a \in important_field_names \cup {"history_type", "history_editor"} |->
                        CASE a = "history_type"   -> DELETED
                          [] a = "history_editor" -> instance["_history_editor"]
                          [] OTHER                -> First(qs)[a]],
                    date)

\* post_delete: write a DELETED entry; HistoricalIntegrityError is swallowed.
post_delete(hs, instance, referenced, date) ==
    LET rec == create_historical_record(instance, instance["_history_editor"],
                                        DELETED, referenced)
    IN  IF rec.exc = "HistoricalIntegrityError" THEN hs
        ELSE create(hs, rec.attrs, date)

\* ------------------------------------------------------------- calls ----
\* What the last step's call into storage was: its name, the instance slot
\* and primary key it acted on, and the exception it raised ("none" when it
\* returned).  Steps that make no such call leave Idle.
\* kw is the editor keyword the call was given (NoKw: none); for a
\* registration, the type it was called for.
CallKw(op, i, pk, exc, kw) ==
    [op |-> op, inst |-> i, pk |-> pk, exc |-> exc, kw |-> kw]
Call(op, i, pk, exc) == CallKw(op, i, pk, exc, NoKw)
Idle == Call("-", 0, NoPk, "none")

\* The orders in which a set of rows can be processed.
Orders(S) ==
    {s \in [1..Cardinality(S) -> S] :
        \A a, b \in 1..Cardinality(S) : a # b => s[a] # s[b]}

\* A variant of pop_editor: the keyword is ignored.
pop_editor_staged_only(self, kw) == self["_history_editor"]

\* A variant of pop_editor: the staged editor is not read.
pop_editor_keyword_only(self, kw) == IF kw = NoKw THEN None ELSE kw

\* The editor a write runs with:
\* kwargs.pop('editor', getattr(self, '_history_editor', None)).
pop_editor(self, kw) == IF kw = NoKw THEN self["_history_editor"] ELSE kw

\* The readings the clock can give next: time does not run backwards.
Readings == {t \in Clock : t >= now}

\* The readings of n successive inserts.
ReadingSeqs(n) ==
    {d \in [1..n -> Readings] : \A a, b \in 1..n : a <= b => d[a] <= d[b]}

\* The date fields that Field.pre_save populates at a primary write:
\* auto_now or (auto_now_add and add).
populated(add) ==
    {k \in 1..Len(date_fields) :
        date_fields[k].auto_now \/ (date_fields[k].auto_now_add /\ add)}

\* The readings of the date fields' pre_save, in field order, at a write
\* whose signal reads the clock at date afterwards.
PreSaveReadings(date) ==
    {ts \in ReadingSeqs(Len(date_fields)) :
        \A k \in 1..Len(ts) : ts[k] <= date}

\* Model.save_base: each populated date field is set on the instance to
\* datetime.now(), its reading in ts, before the row is written.
pre_save(instance, add, ts) ==
    [a \in DOMAIN instance |->
        IF \E k \in populated(add) : date_fields[k].attname = a
        THEN ts[CHOOSE k \in populated(add) : date_fields[k].attname = a]
        ELSE instance[a]]

\* The clock after a primary write that inserted no entry: its last
\* reading by a populated date field, if any.
ClockAfter(add, ts) ==
    LET read == {ts[k] : k \in populated(add)} \cup {now}
    IN  CHOOSE t \in read : \A u \in read : u <= t

\* ------------------------------------------------------- registration ----
\* Types that carry a HistoricalRecords attribute and the fields of
\* ModelFields (test_app/models.py), and the attribute names a class body can
\* bind a HistoricalRecords to.  The one configuration of the model (fields,
\* key_conversions, unique_fields) is used for each of them.
Models == {"PreserveFkToVersionedModel", "ConvertFkToVersionedModel",
           "ConcretizedAbstractFkModel1"}
ManagerNames == {"history", "audit"}

\* A class before any finalize: no post_save/post_delete receiver, no
\* history descriptor, save/delete/__init__ unwrapped, no set_editor method.
\* descriptors maps a manager name to the fields of its history model.
NewClass ==
    [receivers |-> << >>, descriptors |-> << >>, wrappers |-> 0,
     set_editor |-> FALSE]

\* The registration state before any class is prepared.
Unregistered ==
    [REGISTRY |-> << >>, app_errors |-> {},
     model_class |-> [m \in Models |-> NewClass], exc |-> "none"]

\* A variant of finalize: the registry is looked up first, and a type found
\* there is flagged and left as it is.
finalize_check_first(st, model, manager_name) ==
    LET cls == st.model_class[model]
        history_model == copy_fields
        connected == [cls EXCEPT !.receivers = Append(@, manager_name)]
        installed == [connected EXCEPT
                         !.descriptors = Bind(@, manager_name, history_model.fields),
                         !.wrappers = @ + 1,
                         !.set_editor = TRUE]
    IN  IF model \in DOMAIN st.REGISTRY
        THEN [st EXCEPT !.app_errors = @ \cup {model}, !.exc = "Exception"]
        ELSE IF history_model.exc # "none"
        THEN [st EXCEPT !.model_class[model] = connected,
                        !.exc = history_model.exc]
        ELSE [st EXCEPT !.model_class[model] = installed,
                        !.REGISTRY = Bind(@, model, manager_name),
                        !.exc = "none"]

\* finalize(model) of the HistoricalRecords bound to manager_name, in the
\* order of the code: the post_save and post_delete receivers are connected,
\* the history model is derived (copy_fields may raise) and its descriptor
\* set, save, delete and __init__ are wrapped, create_set_editor_method
\* raises when the class has a set_editor already, and only then the
\* registry is consulted.
finalize(st, model, manager_name) ==
    LET cls == st.model_class[model]
        history_model == copy_fields
        connected == [cls EXCEPT !.receivers = Append(@, manager_name)]
        captured == [connected EXCEPT
                        !.descriptors = Bind(@, manager_name, history_model.fields),
                        !.wrappers = @ + 1]
    IN  IF history_model.exc # "none"
        THEN [st EXCEPT !.model_class[model] = connected,
                        !.exc = history_model.exc]
        ELSE IF cls.set_editor
        THEN [st EXCEPT !.model_class[model] = captured, !.exc = "Exception"]
        ELSE IF model \in DOMAIN st.REGISTRY
        THEN [st EXCEPT !.model_class[model] = [captured EXCEPT !.set_editor = TRUE],
                        !.app_errors = @ \cup {model},
                        !.exc = "none"]
        ELSE [st EXCEPT !.model_class[model] = [captured EXCEPT !.set_editor = TRUE],
                        !.REGISTRY = Bind(@, model, manager_name),
                        !.exc = "none"]

\* Every type finalized once, under the name history, with the date fields
\* dates declared and no field declared unique.
Finalized(dates) ==
    /\ date_fields = dates
    /\ unique_fields = {}
    /\ REGISTRY = [m \in Models |-> "history"]
    /\ app_errors = {}
    /\ model_class =
           [m \in Models |-> finalize(Unregistered, m, "history").model_class[m]]

\* Every type finalized once, under the name history, no field declared
\* unique and no date field, and no writer in the middle of a call: the
\* state in which records are written.
AllFinalized ==
    /\ date_fields = << >>
    /\ writers = << >>
    /\ unique_fields = {}
    /\ REGISTRY = [m \in Models |-> "history"]
    /\ app_errors = {}
    /\ model_class =
           [m \in Models |-> finalize(Unregistered, m, "history").model_class[m]]

\* HistoricalRecords(fields=['integer', 'fk'], key_conversions={'fk': ...}):
\* integer and fk are tracked, characters is not; no editor is required and
\* no user exists.  Storage is empty but for the referenced rows.
Init ==
    /\ fields = FieldList({"integer", "fk"})
    /\ key_conversions \in {[fk |-> CONVERT], [fk |-> PRESERVE]}
    /\ require_editor = FALSE
    /\ users = {}
    /\ parents = ParentIds
    /\ objects = << >>
    /\ history = {}
    /\ pk_seq = 0
    /\ history_seq = 0
    /\ now = 0
    /\ inst = << >>
    /\ last = Idle
    /\ AllFinalized

\* m = Model(editor=editor)
New(i, editor) ==
    /\ inst' = Bind(inst, i, new_init(<< >>, editor))
    /\ last' = Idle
    /\ UNCHANGED << config, writers, parents, objects, history, pk_seq, history_seq, now >>

\* m.set_editor(editor)
set_editor(i, editor) ==
    /\ i \in DOMAIN inst
    /\ inst[i]["_history_editor"] # editor
    /\ inst' = [inst EXCEPT ![i]["_history_editor"] = editor]
    /\ last' = Idle
    /\ UNCHANGED << config, writers, parents, objects, history, pk_seq, history_seq, now >>

\* for a, v in values: setattr(m, a, v)
setattrs(instance, values) ==
    [a \in DOMAIN instance |->
        IF a \in DOMAIN values THEN values[a] ELSE instance[a]]

\* The attribute values a caller can assign to an instance before a call.
Assignments ==
    [characters : CharactersValues, integer : IntegerValues, fk_id : ParentIds]

\* The editor keyword of a call: a user, or not passed.
Keywords == users \cup {NoKw}

\* A variant of new_save: the primary write and the signal come first, the
\* editor check after them.
new_save_write_first(i, values, kw, date) ==
    /\ i \in DOMAIN inst
    /\ LET editor == pop_editor(inst[i], kw)
           self == [setattrs(inst[i], values) EXCEPT !["_history_editor"] = editor]
           pk == IF self["id"] = NoPk THEN pk_seq + 1 ELSE self["id"]
           created == pk \notin DOMAIN objects
           saved == [self EXCEPT !["id"] = pk]
           hs == post_save(saved, created, date)
       IN  /\ self["fk_id"] \in parents
           /\ self["id"] = NoPk => pk <= MaxPk
           /\ hs.history_seq <= MaxHist
           /\ objects' = Bind(objects, pk, RowOf(saved))
           /\ pk_seq' = IF self["id"] = NoPk THEN pk ELSE pk_seq
           /\ history' = hs.history
           /\ history_seq' = hs.history_seq
           /\ now' = IF hs.history_seq = history_seq THEN now ELSE date
           /\ inst' = [inst EXCEPT ![i] = saved]
           /\ last' = CallKw("save", i, pk,
                             IF require_editor /\ editor = None
                             THEN "ValueError" ELSE "none", kw)
    /\ UNCHANGED << config, writers, parents >>

\* setattr(m, ...); m.save(editor=kw): the assignments of add_history, then
\* new_save, the primary write of Model.save and the post_save signal.
\* date is the clock's reading if the signal inserts an entry; the date
\* fields populated by the write read the clock before it.
new_save(i, values, kw, date) ==
    /\ i \in DOMAIN inst
    /\ \E ts \in PreSaveReadings(date) :
       LET editor == pop_editor(inst[i], kw)
           self == [setattrs(inst[i], values) EXCEPT !["_history_editor"] = editor]
           failed == IF require_editor /\ editor = None THEN "ValueError"
                     ELSE IF self["fk_id"] \notin parents THEN "IntegrityError"
                     ELSE "none"
           pk == IF self["id"] = NoPk THEN pk_seq + 1 ELSE self["id"]
           created == pk \notin DOMAIN objects
           saved == pre_save([self EXCEPT !["id"] = pk], created, ts)
           hs == post_save(saved, created, date)
       IN  IF failed # "none"
           THEN /\ inst' = [inst EXCEPT ![i] = self]
                /\ last' = CallKw("save", i, self["id"], failed, kw)
                /\ UNCHANGED << objects, history, pk_seq, history_seq, now >>
           ELSE /\ self["id"] = NoPk => pk <= MaxPk
                /\ hs.history_seq <= MaxHist
                /\ objects' = Bind(objects, pk, RowOf(saved))
                /\ pk_seq' = IF self["id"] = NoPk THEN pk ELSE pk_seq
                /\ history' = hs.history
                /\ history_seq' = hs.history_seq
                /\ now' = IF hs.history_seq = history_seq
                          THEN ClockAfter(created, ts) ELSE date
                /\ inst' = [inst EXCEPT ![i] = saved]
                /\ last' = CallKw("save", i, pk, "none", kw)
    /\ UNCHANGED << config, writers, parents >>

\* setattr(m, ...); m.delete(editor=kw) of a live record: new_delete, the
\* row's removal, the post_delete signal, and the instance's pk set to None
\* at the end.
new_delete(i, values, kw, date) ==
    /\ i \in DOMAIN inst
    /\ inst[i]["id"] \in DOMAIN objects
    /\ LET editor == pop_editor(inst[i], kw)
           self == [setattrs(inst[i], values) EXCEPT !["_history_editor"] = editor]
           hs == post_delete([history |-> history, history_seq |-> history_seq],
                             self, parents, date)
       IN  IF require_editor /\ editor = None
           THEN /\ inst' = [inst EXCEPT ![i] = self]
                /\ last' = CallKw("delete", i, self["id"], "ValueError", kw)
                /\ UNCHANGED << objects, history, history_seq, now >>
           ELSE /\ hs.history_seq <= MaxHist
                /\ objects' = Drop(objects, {self["id"]})
                /\ history' = hs.history
                /\ history_seq' = hs.history_seq
                /\ now' = IF hs.history_seq = history_seq THEN now ELSE date
                /\ inst' = [inst EXCEPT ![i] = [self EXCEPT !["id"] = NoPk]]
                /\ last' = CallKw("delete", i, self["id"], "none", kw)
    /\ UNCHANGED << config, writers, parents, pk_seq >>

\* The post_delete signals of a cascade, one per collected row in the order
\* given; each instance is loaded from its row, so its editor is None.
RECURSIVE cascade_post_delete(_, _, _, _)
cascade_post_delete(hs, order, referenced, dates) ==
    IF order = << >> THEN hs
    ELSE cascade_post_delete(
             post_delete(hs, FromRow(Head(order)), referenced, Head(dates)),
             Tail(order), referenced, Tail(dates))

\* A variant of preserved_references: a real foreign key under any policy.
preserved_references_any_policy(p) == {e \in history : e["fk_id"] = p}

\* A variant of preserved_references: the history keeps no foreign key.
preserved_references_none(p) == {}

\* The history entries that hold a real foreign key to parent p: the ones
\* of a tracked PRESERVEd fk (copy_fields keeps the ForeignKey).
preserved_references(p) ==
    IF "fk_id" \in important_field_names /\ KeyConversion("fk") = PRESERVE
    THEN {e \in history : e["fk_id"] = p}
    ELSE {}

\* parent.delete(): the cascade removes the rows of the tracked type that
\* reference p and the history entries that hold a real foreign key to p,
\* then the parent row; the post_delete signals follow.
delete_parent(p) ==
    /\ p \in parents
    /\ LET dependents == {q \in DOMAIN objects : objects[q]["fk_id"] = p}
           kept == [history |-> history \ preserved_references(p),
                    history_seq |-> history_seq]
       IN  \E order \in Orders(dependents) :
           \E dates \in ReadingSeqs(Cardinality(dependents)) :
              LET hs == cascade_post_delete(kept, order, parents \ {p}, dates)
              IN  /\ hs.history_seq <= MaxHist
                  /\ history' = hs.history
                  /\ history_seq' = hs.history_seq
                  /\ now' = IF hs.history_seq = history_seq THEN now
                            ELSE dates[Len(dates)]
                  /\ objects' = Drop(objects, dependents)
    /\ parents' = parents \ {p}
    /\ last' = Call("delete_parent", 0, p, "none")
    /\ UNCHANGED << config, writers, pk_seq, inst >>

\* m = Model.history.get_or_restore(pk)
GetOrRestore(i, pk) ==
    /\ LET r == get_or_restore(pk)
       IN  /\ inst' = IF r.exc = "none" THEN Bind(inst, i, r.obj) ELSE inst
           /\ last' = Call("get_or_restore", i, pk, r.exc)
    /\ UNCHANGED << config, writers, parents, objects, history, pk_seq, history_seq, now >>

Next ==
    \/ \E i \in Insts, e \in users \cup {None} : New(i, e)
    \/ \E i \in Insts, v \in Assignments, kw \in Keywords,
          d \in Readings : new_save(i, v, kw, d)
    \/ \E i \in Insts, v \in Assignments, kw \in Keywords,
          d \in Readings : new_delete(i, v, kw, d)
    \/ \E p \in ParentIds : delete_parent(p)
    \/ \E i \in Insts, pk \in Pks : GetOrRestore(i, pk)

Spec == Init /\ [][Next]_vars

\* ------------------------------------------- two referenced records ----
\* The storage after a fixture in the manner of PreservedForeignKeyTest.setUp:
\* two referenced rows, and two rows of the tracked type created with fk set
\* to the first of them, one 'created' entry each.
FixtureParents == {1, 2}
FixtureKeys == {1, 2}

FixtureObjects ==
    [pk \in FixtureKeys |->
        [characters |-> DefaultCharacters, integer |-> DefaultInteger, fk_id |-> 1]]

FixtureHistory ==
    {[id |-> pk, integer |-> DefaultInteger, fk_id |-> 1,
      history_id |-> pk, history_date |-> 0,
      history_type |-> CREATED, history_editor |-> None] : pk \in FixtureKeys}

InitPreserve ==
    /\ fields = FieldList({"integer", "fk"})
    /\ key_conversions = [fk |-> PRESERVE]
    /\ require_editor = FALSE
    /\ users = {}
    /\ parents = FixtureParents
    /\ objects = FixtureObjects
    /\ history = FixtureHistory
    /\ pk_seq = Cardinality(FixtureKeys)
    /\ history_seq = Cardinality(FixtureKeys)
    /\ now = 0
    /\ inst = << >>
    /\ last = Idle
    /\ AllFinalized

\* The values a caller can assign when either referenced row can be named.
FixtureAssignments ==
    [characters : CharactersValues, integer : IntegerValues,
     fk_id : FixtureParents]

NextPreserve ==
    \/ \E i \in Insts, e \in users \cup {None} : New(i, e)
    \/ \E i \in Insts, v \in FixtureAssignments, kw \in Keywords,
          d \in Readings : new_save(i, v, kw, d)
    \/ \E i \in Insts, v \in FixtureAssignments, kw \in Keywords,
          d \in Readings : new_delete(i, v, kw, d)
    \/ \E p \in FixtureParents : delete_parent(p)
    \/ \E i \in Insts, pk \in FixtureKeys : GetOrRestore(i, pk)

SpecPreserve == InitPreserve /\ [][NextPreserve]_vars

\* -------------------------------------------------------------- editors ----
\* The User rows of test_editors, two of them.
Users == {"alan", "beth"}

\* HistoricalRecords(fields=['integer', 'fk'], require_editor=...): the
\* registrations with and without a required editor, the users there.
InitEditors ==
    /\ fields = FieldList({"integer", "fk"})
    /\ key_conversions = [fk |-> CONVERT]
    /\ require_editor \in BOOLEAN
    /\ users = Users
    /\ parents = ParentIds
    /\ objects = << >>
    /\ history = {}
    /\ pk_seq = 0
    /\ history_seq = 0
    /\ now = 0
    /\ inst = << >>
    /\ last = Idle
    /\ AllFinalized

\* The editor keyword of a call: a user, None, or not passed.
EditorKeywords == users \cup {None, NoKw}

\* The assignments of test_editors: m.integer = val.
EditorAssignments ==
    [characters : {DefaultCharacters}, integer : IntegerValues,
     fk_id : ParentIds]

\* The instance is built, given editors and values, saved and deleted; the
\* writes follow one another within one reading of the clock.
NextEditors ==
    \/ \E i \in Insts, e \in users \cup {None} : New(i, e)
    \/ \E i \in Insts, e \in users \cup {None} : set_editor(i, e)
    \/ \E i \in Insts, v \in EditorAssignments, kw \in EditorKeywords,
          d \in {now} : new_save(i, v, kw, d)
    \/ \E i \in Insts, v \in EditorAssignments, kw \in EditorKeywords,
          d \in {now} : new_delete(i, v, kw, d)

SpecEditors == InitEditors /\ [][NextEditors]_vars

\* ------------------------------------------------------ required editor ----
\* HistoricalRecords(fields=['integer', 'fk'], require_editor=True) on a type
\* whose fk is CONVERTed, one user, and the referenced row that the records
\* depend on.
InitRequired ==
    /\ fields = FieldList({"integer", "fk"})
    /\ key_conversions = [fk |-> CONVERT]
    /\ require_editor = TRUE
    /\ users = {"alan"}
    /\ parents = ParentIds
    /\ objects = << >>
    /\ history = {}
    /\ pk_seq = 0
    /\ history_seq = 0
    /\ now = 0
    /\ inst = << >>
    /\ last = Idle
    /\ AllFinalized

\* The writes of NextEditors, and the delete of the referenced row.
NextRequired ==
    \/ \E i \in Insts, e \in users \cup {None} : New(i, e)
    \/ \E i \in Insts, e \in users \cup {None} : set_editor(i, e)
    \/ \E i \in Insts, v \in EditorAssignments, kw \in EditorKeywords,
          d \in {now} : new_save(i, v, kw, d)
    \/ \E i \in Insts, v \in EditorAssignments, kw \in EditorKeywords,
          d \in {now} : new_delete(i, v, kw, d)
    \/ \E p \in ParentIds : delete_parent(p)

SpecRequired == InitRequired /\ [][NextRequired]_vars

\* -------------------------------------------------------------- authors ----
\* The saves of test_editors with the clock running: an instance is built
\* and saved by one user or another, at the same reading of the clock as
\* the entry before or at a later one.
InitAuthors ==
    /\ fields = FieldList({"integer", "fk"})
    /\ key_conversions = [fk |-> CONVERT]
    /\ require_editor = FALSE
    /\ users = Users
    /\ parents = ParentIds
    /\ objects = << >>
    /\ history = {}
    /\ pk_seq = 0
    /\ history_seq = 0
    /\ now = 0
    /\ inst = << >>
    /\ last = Idle
    /\ AllFinalized

NextAuthors ==
    \/ \E i \in Insts : New(i, None)
    \/ \E i \in Insts, v \in EditorAssignments, kw \in users,
          d \in Readings : new_save(i, v, kw, d)

SpecAuthors == InitAuthors /\ [][NextAuthors]_vars

\* ---------------------------------------------------------- date fields ----
\* DateFieldTestModel's history = HistoricalRecords() on a type with an
\* auto_now and an auto_now_add DateTimeField: every field is tracked, no
\* conversion is given.  A record is saved, deleted, restored and saved again
\* while the clock runs (test_auto_now_fields).
InitDates ==
    /\ fields = NoFields
    /\ key_conversions = << >>
    /\ require_editor = FALSE
    /\ users = {}
    /\ parents = ParentIds
    /\ objects = << >>
    /\ history = {}
    /\ pk_seq = 0
    /\ history_seq = 0
    /\ now = 0
    /\ inst = << >>
    /\ last = Idle
    /\ Finalized(AutoDateFields)
    /\ writers = << >>

NextDates ==
    \/ \E i \in Insts : New(i, None)
    \/ \E i \in Insts, v \in EditorAssignments, d \in Readings :
          new_save(i, v, NoKw, d)
    \/ \E i \in Insts, v \in EditorAssignments, d \in Readings :
          new_delete(i, v, NoKw, d)
    \/ \E i \in Insts, pk \in Pks : GetOrRestore(i, pk)

SpecDates == InitDates /\ [][NextDates]_vars

\* ------------------------------------------------------------- writers ----
\* Concurrent callers of save and delete.  A call is a sequence of storage
\* statements; the code opens no transaction around them, so each takes
\* effect when it is executed and the statements of other callers can come
\* between them.  Writer w works on the instance in slot w.
Writers == {1, 2}

\* A writer outside any call; inside one, pc is the statement it has
\* executed last, created the flag of its post_save signal, mr the most
\* recent entry it has read.
IdleWriter == [pc |-> "idle", created |-> FALSE, mr |-> NotFound]

\* A variant of warranted: only a first entry is warranted.
warranted_first_only(instance, mr) == mr.exc = "DoesNotExist"

\* post_save's comparison: no most recent entry, or a tracked field of the
\* instance differs from it.
warranted(instance, mr) ==
    LET names == get_important_field_names
    IN  IF mr.exc = "DoesNotExist" THEN TRUE
        ELSE \E k \in 1..Len(names) : instance[names[k]] # mr.obj[names[k]]

\* m = Model.history.get_or_restore(pk) by writer w.
WriterLoad(w, pk) ==
    /\ writers[w].pc = "idle"
    /\ LET r == get_or_restore(pk)
       IN  /\ inst' = IF r.exc = "none" THEN Bind(inst, w, r.obj) ELSE inst
           /\ last' = Call("get_or_restore", w, pk, r.exc)
    /\ UNCHANGED << config, writers, parents, objects, history, pk_seq,
                    history_seq, now >>

\* setattr(m, ...); m.save() up to the primary write: new_save's editor
\* handling and Model.save's INSERT or UPDATE.
WriterSave(w, values) ==
    /\ writers[w].pc = "idle"
    /\ w \in DOMAIN inst
    /\ \E ts \in ReadingSeqs(Len(date_fields)) :
       LET editor == pop_editor(inst[w], NoKw)
           self == [setattrs(inst[w], values) EXCEPT !["_history_editor"] = editor]
           failed == IF require_editor /\ editor = None THEN "ValueError"
                     ELSE IF self["fk_id"] \notin parents THEN "IntegrityError"
                     ELSE "none"
           pk == IF self["id"] = NoPk THEN pk_seq + 1 ELSE self["id"]
           created == pk \notin DOMAIN objects
           saved == pre_save([self EXCEPT !["id"] = pk], created, ts)
       IN  IF failed # "none"
           THEN /\ inst' = [inst EXCEPT ![w] = self]
                /\ last' = Call("save", w, self["id"], failed)
                /\ UNCHANGED << objects, pk_seq, now, writers >>
           ELSE /\ self["id"] = NoPk => pk <= MaxPk
                /\ objects' = Bind(objects, pk, RowOf(saved))
                /\ pk_seq' = IF self["id"] = NoPk THEN pk ELSE pk_seq
                /\ now' = ClockAfter(created, ts)
                /\ inst' = [inst EXCEPT ![w] = saved]
                /\ writers' = [writers EXCEPT ![w] =
                                  [pc |-> "written", created |-> created,
                                   mr |-> NotFound]]
                /\ last' = Call("save", w, pk, "none")
    /\ UNCHANGED << config, parents, history, history_seq >>

\* post_save: manager.most_recent(pk=instance.pk), or DoesNotExist.
WriterRead(w) ==
    /\ writers[w].pc = "written"
    /\ writers' = [writers EXCEPT ![w].pc = "read",
                                  ![w].mr = most_recent(inst[w]["id"])]
    /\ last' = Call("most_recent", w, inst[w]["id"], "none")
    /\ UNCHANGED << config, parents, objects, history, pk_seq, history_seq,
                    now, inst >>

\* post_save: the comparison with the entry read; the call returns when
\* nothing differs.
WriterCompare(w) ==
    /\ writers[w].pc = "read"
    /\ writers' = [writers EXCEPT ![w] =
                      IF warranted(inst[w], writers[w].mr)
                      THEN [@ EXCEPT !.pc = "compared"] ELSE IdleWriter]
    /\ last' = Call("compare", w, inst[w]["id"], "none")
    /\ UNCHANGED << config, parents, objects, history, pk_seq, history_seq,
                    now, inst >>

\* post_save: create_historical_record, the insert of the entry.
WriterInsert(w, date) ==
    /\ writers[w].pc = "compared"
    /\ LET rec == create_historical_record(inst[w], inst[w]["_history_editor"],
                      IF writers[w].created THEN CREATED ELSE MODIFIED, parents)
           hs == create([history |-> history, history_seq |-> history_seq],
                        rec.attrs, date)
       IN  IF rec.exc # "none"
           THEN /\ last' = Call("create", w, inst[w]["id"], rec.exc)
                /\ UNCHANGED << history, history_seq, now >>
           ELSE /\ hs.history_seq <= MaxHist
                /\ history' = hs.history
                /\ history_seq' = hs.history_seq
                /\ now' = date
                /\ last' = Call("create", w, inst[w]["id"], "none")
    /\ writers' = [writers EXCEPT ![w] = IdleWriter]
    /\ UNCHANGED << config, parents, objects, pk_seq, inst >>

\* m.delete() of a live record up to the removal of its row.
WriterDelete(w) ==
    /\ writers[w].pc = "idle"
    /\ w \in DOMAIN inst
    /\ inst[w]["id"] \in DOMAIN objects
    /\ LET editor == pop_editor(inst[w], NoKw)
       IN  IF require_editor /\ editor = None
           THEN /\ last' = Call("delete", w, inst[w]["id"], "ValueError")
                /\ UNCHANGED << objects, writers >>
           ELSE /\ objects' = Drop(objects, {inst[w]["id"]})
                /\ writers' = [writers EXCEPT ![w].pc = "removed"]
                /\ last' = Call("delete", w, inst[w]["id"], "none")
    /\ UNCHANGED << config, parents, history, pk_seq, history_seq, now, inst >>

\* post_delete: the insert of the 'deleted' entry; the instance's pk is set
\* to None when the call returns.
WriterInsertDeleted(w, date) ==
    /\ writers[w].pc = "removed"
    /\ LET hs == post_delete([history |-> history, history_seq |-> history_seq],
                             inst[w], parents, date)
       IN  /\ hs.history_seq <= MaxHist
           /\ history' = hs.history
           /\ history_seq' = hs.history_seq
           /\ now' = IF hs.history_seq = history_seq THEN now ELSE date
           /\ last' = Call("create", w, inst[w]["id"], "none")
    /\ inst' = [inst EXCEPT ![w]["id"] = NoPk]
    /\ writers' = [writers EXCEPT ![w] = IdleWriter]
    /\ UNCHANGED << config, parents, objects, pk_seq >>

\* Two writers and one record: it has been created with the defaults, and
\* each writer has loaded it; it is saved and deleted by both, and loaded or
\* restored again.  The clock stands still: the dates of the entries play
\* no part in the order of the writers' statements.
InitWriters ==
    /\ fields = FieldList({"integer", "fk"})
    /\ key_conversions = [fk |-> CONVERT]
    /\ require_editor = FALSE
    /\ users = {}
    /\ parents = ParentIds
    /\ objects = [pk \in {1} |->
                     [characters |-> DefaultCharacters,
                      integer |-> DefaultInteger, fk_id |-> 1]]
    /\ history = {[id |-> 1, integer |-> DefaultInteger, fk_id |-> 1,
                   history_id |-> 1, history_date |-> 0,
                   history_type |-> CREATED, history_editor |-> None]}
    /\ pk_seq = 1
    /\ history_seq = 1
    /\ now = 0
    /\ Finalized(<< >>)
    /\ inst = [w \in Writers |-> FromRow(1)]
    /\ last = Idle
    /\ writers = [w \in Writers |-> IdleWriter]

NextWriters ==
    \/ \E w \in Writers, pk \in Pks : WriterLoad(w, pk)
    \/ \E w \in Writers, v \in EditorAssignments : WriterSave(w, v)
    \/ \E w \in Writers : WriterRead(w)
    \/ \E w \in Writers : WriterCompare(w)
    \/ \E w \in Writers : WriterInsert(w, now)
    \/ \E w \in Writers : WriterDelete(w)
    \/ \E w \in Writers : WriterInsertDeleted(w, now)

SpecWriters == InitWriters /\ [][NextWriters]_vars

\* ------------------------------------------------------- two identities ----
\* Two writers, each on a record of its own: the two records of the
\* fixture, one 'created' entry each, writer w holding record w.  The clock
\* runs.
InitIdentities ==
    /\ fields = FieldList({"integer", "fk"})
    /\ key_conversions = [fk |-> CONVERT]
    /\ require_editor = FALSE
    /\ users = {}
    /\ parents = FixtureParents
    /\ objects = FixtureObjects
    /\ history = FixtureHistory
    /\ pk_seq = Cardinality(FixtureKeys)
    /\ history_seq = Cardinality(FixtureKeys)
    /\ now = 0
    /\ Finalized(<< >>)
    /\ inst = [w \in Writers |-> FromRow(w)]
    /\ last = Idle
    /\ writers = [w \in Writers |-> IdleWriter]

NextIdentities ==
    \/ \E w \in Writers : WriterLoad(w, w)
    \/ \E w \in Writers, v \in EditorAssignments : WriterSave(w, v)
    \/ \E w \in Writers : WriterRead(w)
    \/ \E w \in Writers : WriterCompare(w)
    \/ \E w \in Writers, d \in Readings : WriterInsert(w, d)
    \/ \E w \in Writers : WriterDelete(w)
    \/ \E w \in Writers, d \in Readings : WriterInsertDeleted(w, d)

SpecIdentities == InitIdentities /\ [][NextIdentities]_vars

\* ------------------------------------------------- class preparation ----
\* class_prepared -> model_prepared -> finalize, for the HistoricalRecords
\* bound to manager_name in the body of the class of model.  A class body
\* binds a name once.
Finalize(model, manager_name) ==
    /\ \A k \in 1..Len(model_class[model].receivers) :
          model_class[model].receivers[k] # manager_name
    /\ LET st == finalize([REGISTRY |-> REGISTRY, app_errors |-> app_errors,
                           model_class |-> model_class, exc |-> "none"],
                          model, manager_name)
       IN  /\ REGISTRY' = st.REGISTRY
           /\ app_errors' = st.app_errors
           /\ model_class' = st.model_class
           /\ last' = CallKw("finalize", 0, NoPk, st.exc, model)
    /\ UNCHANGED << fields, key_conversions, require_editor, users, parents,
                    objects, history, pk_seq, history_seq, now, inst,
                    unique_fields, date_fields, writers >>

\* The classes are being defined: nothing is finalized, nothing is stored.
InitRegistration ==
    /\ date_fields = << >>
    /\ writers = << >>
    /\ fields = FieldList({"integer", "fk"})
    /\ key_conversions = [fk |-> CONVERT]
    /\ require_editor = FALSE
    /\ users = {}
    /\ parents = {}
    /\ objects = << >>
    /\ history = {}
    /\ pk_seq = 0
    /\ history_seq = 0
    /\ now = 0
    /\ inst = << >>
    /\ last = Idle
    /\ unique_fields = {}
    /\ REGISTRY = Unregistered.REGISTRY
    /\ app_errors = Unregistered.app_errors
    /\ model_class = Unregistered.model_class

NextRegistration ==
    \E model \in Models, manager_name \in ManagerNames :
        Finalize(model, manager_name)

SpecRegistration == InitRegistration /\ [][NextRegistration]_vars

\* ---------------------------------------------------------- derivation ----
\* The configurations a HistoricalRecords can be built with over the fields
\* of the type: fields=None or a list of the non-key names, key_conversions
\* a map over some of the names integer and fk to CONVERT, PRESERVE or
\* another value, and any of the non-key fields declared unique.
NonKeyNames == {ModelFields[k].name : k \in 2..Len(ModelFields)}
FieldsChoices == {NoFields} \cup {FieldList(S) : S \in SUBSET NonKeyNames}
ConversionMaps ==
    UNION {[D -> {CONVERT, PRESERVE, OtherConversion}] :
              D \in SUBSET {"integer", "fk"}}

InitDerivation ==
    /\ date_fields = << >>
    /\ writers = << >>
    /\ fields \in FieldsChoices
    /\ key_conversions \in ConversionMaps
    /\ require_editor = FALSE
    /\ users = {}
    /\ parents = {}
    /\ objects = << >>
    /\ history = {}
    /\ pk_seq = 0
    /\ history_seq = 0
    /\ now = 0
    /\ inst = << >>
    /\ last = Idle
    /\ unique_fields \in SUBSET NonKeyNames
    /\ REGISTRY = Unregistered.REGISTRY
    /\ app_errors = Unregistered.app_errors
    /\ model_class = Unregistered.model_class

\* One class is prepared.
NextDerivation ==
    \E manager_name \in ManagerNames :
        Finalize("ConcretizedAbstractFkModel1", manager_name)

SpecDerivation == InitDerivation /\ [][NextDerivation]_vars

\* ------------------------------------------------------------ claims ----
\* The tracked field values of an object, and of a primary row of key pk.
Tracked(obj) == [a \in important_field_names |-> obj[a]]
TrackedRow(pk, row) ==
    [a \in important_field_names |-> IF a = "id" THEN pk ELSE row[a]]

\* A step that is a save which returned: the call is in last', the saved
\* instance in inst'.
SaveReturned == last'.op = "save" /\ last'.exc = "none"

\* The entries a step adds.
Added == history' \ history

\* C1: every save that changes a tracked field relative to the previous save
\* of the identity (or is the identity's first save) appends exactly one
\* entry, and its sequence id is above every id handed out before; so N
\* such saves leave N entries, their ids increasing in save order.
C1_ChangingSaveAppendsOne ==
    [][ LET pk == last'.pk
            first == pk_seq' # pk_seq
            changed == /\ pk \in DOMAIN objects
                       /\ TrackedRow(pk, objects'[pk]) # TrackedRow(pk, objects[pk])
        IN  (SaveReturned /\ (first \/ changed)) =>
                \E e \in Added :
                    /\ history' = history \cup {e}
                    /\ e.id = pk
                    /\ Tracked(e) = Tracked(inst'[last'.inst])
                    /\ \A o \in history : o.history_id < e.history_id
      ]_vars

\* Three saves of one identity have left three entries.
C1_Witness ==
    /\ last.op = "save" /\ last.exc = "none"
    /\ Cardinality(filter_queryset_by_pk(history, last.pk)) = 3
    /\ \A e \in history : e.history_type # DELETED

\* C2: a save whose tracked values all equal those of the identity's most
\* recent entry writes no entry, whether the same values are saved again
\* or only an untracked field was changed.
C2_UnchangedSaveWritesNothing ==
    [][ (/\ SaveReturned
         /\ most_recent(last'.pk).exc = "none"
         /\ Tracked(most_recent(last'.pk).obj) = Tracked(inst'[last'.inst]))
        => history' = history
      ]_vars

\* A save of a restored record went through with the untracked field
\* changed and no entry written: the record is live, its untracked field
\* is not the restored default, and the latest entry is still the delete's.
C2_Witness ==
    /\ last.op = "save" /\ last.exc = "none"
    /\ last.pk \in DOMAIN objects
    /\ "characters" \notin important_field_names
    /\ objects[last.pk]["characters"] # DefaultCharacters
    /\ First(filter_queryset_by_pk(history, last.pk)).history_type = DELETED

\* C3: after a save, most_recent on the instance and most_recent(pk) on the
\* type both return an object whose tracked fields are the saved values.
C3_MostRecentIsLastSave ==
    (last.op = "save" /\ last.exc = "none") =>
        LET m == inst[last.inst]
        IN  /\ instance_most_recent(m).exc = "none"
            /\ Tracked(instance_most_recent(m).obj) = Tracked(m)
            /\ most_recent(last.pk) = instance_most_recent(m)

\* The third save of a record changed a tracked field.
C3_Witness ==
    /\ last.op = "save" /\ last.exc = "none"
    /\ history_seq = 3
    /\ \E e \in history : /\ e.history_id = 3 /\ e.history_type = MODIFIED
                          /\ e.id = last.pk
                          /\ Tracked(e) = Tracked(inst[last.inst])
    /\ \E e \in history : /\ e.history_id = 2 /\ e.history_type = MODIFIED
                          /\ e.id = last.pk

\* C4: as_of(t) is a step function of t over the identity's entries: not
\* found before the first entry, the most recent entry from the last change
\* on, and the earlier entry strictly between two consecutive entries.  An
\* entry of a delete reads as not found unless restore is given.
C4_AsOfIsStepFunction ==
    \A pk \in Pks, t \in Times, restore \in BOOLEAN :
        LET es == filter_queryset_by_pk(history, pk)
            value(e) == IF e.history_type = DELETED /\ ~restore THEN NotFound
                        ELSE Found(history_object(e))
            consecutive(a, b) ==
                /\ a.history_id < b.history_id
                /\ ~ \E o \in es : a.history_id < o.history_id
                                   /\ o.history_id < b.history_id
        IN  /\ (\A e \in es : t < e.history_date) =>
                as_of(t, pk, restore) = NotFound
            /\ \A e \in es :
                ((\A o \in es : o.history_id <= e.history_id /\ o.history_date <= t)
                    => as_of(t, pk, restore) = value(e))
            /\ \A a, b \in es :
                ((consecutive(a, b) /\ a.history_date < t /\ t < b.history_date)
                    => as_of(t, pk, restore) = value(a))

\* An instant lies strictly between two entries of a record, and as_of
\* there returns the earlier one, whose tracked value differs from the later.
C4_Witness ==
    \E pk \in Pks, t \in Times :
        \E a, b \in filter_queryset_by_pk(history, pk) :
            /\ a.history_date < t /\ t < b.history_date
            /\ a.history_id + 1 = b.history_id
            /\ a["integer"] # b["integer"]
            /\ as_of(t, pk, FALSE) = Found(history_object(a))

\* The records a step removes from primary storage.
DeletedNow(pk) == pk \in DOMAIN objects /\ pk \notin DOMAIN objects'

\* The step is the cascade of a delete of a record that the tracked type
\* references through a tracked PRESERVE-policy field.
PreserveCascade ==
    /\ last'.op = "delete_parent"
    /\ KeyConversion("fk") = PRESERVE
    /\ "fk_id" \in important_field_names

\* Right after the delete of pk: the delete's entry d exists; from its
\* instant on as_of finds nothing, or d's values with restore; before it
\* as_of returns what it returned before the delete.
AsOfAfterDelete(pk) ==
    \E d \in Added :
        /\ d.id = pk
        /\ d.history_type = DELETED
        /\ \A t \in Times :
            /\ t >= d.history_date =>
                /\ as_of(t, pk, FALSE)' = NotFound
                /\ as_of(t, pk, TRUE)' = Found(history_object(d))
            /\ t < d.history_date =>
                \A restore \in BOOLEAN :
                    as_of(t, pk, restore)' = as_of(t, pk, restore)

C6_GetOrRestore ==
    last.op = "get_or_restore" =>
        LET pk == last.pk
            es == filter_queryset_by_pk(history, pk)
        IN  /\ pk \in DOMAIN objects =>
                /\ last.exc = "none"
                /\ inst[last.inst]["id"] = pk
                /\ \A a \in AttNames \ {"id"} :
                       inst[last.inst][a] = objects[pk][a]
            /\ (pk \notin DOMAIN objects /\ es # {}) =>
                /\ last.exc = "none"
                /\ inst[last.inst]["id"] = pk
                /\ \E e \in es :
                    /\ \A o \in es : o.history_id <= e.history_id
                    /\ \A a \in important_field_names : inst[last.inst][a] = e[a]

\* A deleted record was restored from its history.
C6_Witness ==
    /\ last.op = "get_or_restore" /\ last.exc = "none"
    /\ last.pk \notin DOMAIN objects
    /\ inst[last.inst]["id"] = last.pk
    /\ inst[last.inst]["integer"] # DefaultInteger

\* C7 as stated: no step changes or removes an existing history entry.
C7_AppendOnly ==
    [][ \A e \in history : e \in history' ]_vars

\* C7: no step changes an existing entry, and the only entries a step
\* removes are those that hold a PRESERVE-policy reference to the record
\* the step deletes.
C7_AppendOnlyButPreserveCascade ==
    [][ \A e \in history :
          \/ e \in history'
          \/ PreserveCascade /\ e["fk_id"] = last'.pk ]_vars

\* The cascade of a CONVERT-policy reference has appended the delete's
\* entry after the entries of the record's saves.
C7_Witness ==
    /\ last.op = "delete_parent"
    /\ KeyConversion("fk") = CONVERT
    /\ \E e \in history : e.history_type = DELETED /\ e.history_id = 3
    /\ \E e \in history : e.history_type = MODIFIED /\ e.history_id = 2
    /\ \E e \in history : e.history_type = CREATED /\ e.history_id = 1

\* C8 as stated: a save's entry is tagged created exactly when the identity
\* had no entry before the save, and modified whenever it had one.
C8_CreatedIffNoHistory ==
    [][ SaveReturned =>
          \A e \in Added :
              e.history_type =
                  IF filter_queryset_by_pk(history, last'.pk) = {}
                  THEN CREATED ELSE MODIFIED ]_vars

\* C8: a save's entry is tagged created exactly when the save inserted the
\* primary row, and modified when it updated a row that was there.
C8_CreatedIffRowInserted ==
    [][ SaveReturned =>
          \A e \in Added :
              e.history_type =
                  IF last'.pk \in DOMAIN objects THEN MODIFIED ELSE CREATED
      ]_vars

\* The save of a restored record has written a created entry on top of the
\* identity's earlier entries.
C8_Witness ==
    /\ last.op = "save" /\ last.exc = "none"
    /\ \E e, d \in filter_queryset_by_pk(history, last.pk) :
        /\ e.history_id = history_seq
        /\ e.history_type = CREATED
        /\ d.history_id + 1 = e.history_id
        /\ d.history_type = DELETED

\* The delete of pk ran in this step: m.delete() on it, or the cascade of
\* the delete of the record it references.
DeleteRan(pk) ==
    /\ pk \in DOMAIN objects
    /\ \/ last'.op = "delete" /\ last'.pk = pk
       \/ last'.op = "delete_parent" /\ objects[pk]["fk_id"] = last'.pk

\* The tracked values post_delete saw for pk: those of the instance delete
\* was called on, or of the row the cascade collected.
FinalTracked(pk) ==
    IF last'.op = "delete"
    THEN Tracked([inst'[last'.inst] EXCEPT !["id"] = pk])
    ELSE TrackedRow(pk, objects[pk])

\* A tracked PRESERVE-policy reference of pk does not resolve when its
\* post_delete runs.
Dangling(pk) ==
    /\ KeyConversion("fk") = PRESERVE
    /\ "fk_id" \in important_field_names
    /\ FinalTracked(pk)["fk_id"] \notin parents'

C10_DanglingDeleteIsSilent ==
    [][ \A pk \in Pks : (DeleteRan(pk) /\ Dangling(pk)) =>
          /\ last'.exc = "none"
          /\ pk \notin DOMAIN objects'
          /\ ~ \E e \in Added : e.id = pk ]_vars

\* The cascade under the PRESERVE policy has removed a record that was
\* live (the instance of its last save is still in memory) and left no
\* entry of it.
C10_Witness ==
    /\ last.op = "delete_parent" /\ last.exc = "none"
    /\ KeyConversion("fk") = PRESERVE
    /\ \E i \in DOMAIN inst :
        /\ inst[i]["id"] \in Pks
        /\ inst[i]["characters"] # DefaultCharacters
        /\ inst[i]["id"] \notin DOMAIN objects
        /\ filter_queryset_by_pk(history, inst[i]["id"]) = {}

\* The rows of the tracked type that reference the record whose delete a
\* delete_parent step runs.
Dependents == {pk \in DOMAIN objects : objects[pk]["fk_id"] = last'.pk}

\* C11 as stated: under the PRESERVE policy the delete of a referenced
\* record removes its dependents from primary storage and leaves no history
\* entry of them, and none that references the removed record.
C11_CascadeLeavesNoHistory ==
    [][ PreserveCascade =>
          /\ \A pk \in Dependents :
                /\ pk \notin DOMAIN objects'
                /\ filter_queryset_by_pk(history', pk) = {}
          /\ \A e \in history' : e["fk_id"] # last'.pk ]_vars

\* C11: under the PRESERVE policy the delete of a referenced record removes
\* its dependents from primary storage, adds no entry, and leaves exactly
\* the entries that do not reference the removed record, in whatever order
\* the cascade takes the dependents; entries of a dependent that reference
\* another record stay.
C11_CascadeLeavesNoReference ==
    [][ PreserveCascade =>
          /\ \A pk \in Dependents : pk \notin DOMAIN objects'
          /\ history' = {e \in history : e["fk_id"] # last'.pk} ]_vars

\* The delete of a referenced record has removed both of its dependents and
\* every entry of theirs.
C11_Witness ==
    /\ last.op = "delete_parent"
    /\ KeyConversion("fk") = PRESERVE
    /\ objects = << >>
    /\ history = {}
    /\ pk_seq = 2
    /\ parents = FixtureParents \ {last.pk}

\* C12: under the CONVERT policy the delete of a referenced record removes
\* its dependents from primary storage and none of the history entries:
\* every entry written before is still there, and each dependent's history
\* is non-empty.
C12_ConvertCascadeKeepsHistory ==
    [][ (last'.op = "delete_parent" /\ KeyConversion("fk") = CONVERT) =>
          /\ \A pk \in Dependents :
                /\ pk \notin DOMAIN objects'
                /\ filter_queryset_by_pk(history', pk) # {}
          /\ \A e \in history : e \in history' ]_vars

\* The cascade under the CONVERT policy has removed a record that was live
\* (the instance of its save is still in memory); its entries are there.
C12_Witness ==
    /\ last.op = "delete_parent"
    /\ KeyConversion("fk") = CONVERT
    /\ \E i \in DOMAIN inst :
        /\ inst[i]["id"] \in Pks
        /\ inst[i]["id"] \notin DOMAIN objects
        /\ inst[i]["characters"] # DefaultCharacters
        /\ \E e \in filter_queryset_by_pk(history, inst[i]["id"]) :
              e.history_type = CREATED

\* The editor a call runs with, from the keyword in last' and the editor
\* staged on the instance before the step.
EditorSupplied ==
    IF last'.kw # NoKw THEN last'.kw
    ELSE inst[last'.inst]["_history_editor"]

\* The step is a call of save or delete.
WriteCalled == last'.op \in {"save", "delete"}

\* C13: with a required editor, a save or delete without an editor raises
\* ValueError and leaves primary storage and the history as they were; with
\* an editor it raises no ValueError.
C13_RequiredEditorFailsClosed ==
    [][ WriteCalled =>
          IF require_editor /\ EditorSupplied = None
          THEN /\ last'.exc = "ValueError"
               /\ objects' = objects
               /\ history' = history
               /\ UNCHANGED << pk_seq, history_seq >>
          ELSE last'.exc # "ValueError" ]_vars

\* The delete of a live record was refused for lack of an editor: the
\* record and its entry are still there.
C13_Witness ==
    /\ require_editor
    /\ last.op = "delete" /\ last.exc = "ValueError"
    /\ last.pk \in DOMAIN objects
    /\ filter_queryset_by_pk(history, last.pk) # {}
    /\ \A e \in history : e.history_type # DELETED

\* C14: the entry a save or delete writes carries the editor the call was
\* given as keyword, else the editor staged on the instance; so the i-th
\* entry of a sequence of saves carries the i-th save's editor.
C14_EntryCarriesEditor ==
    [][ (WriteCalled /\ last'.exc = "none") =>
          \A e \in Added : e.history_editor = EditorSupplied ]_vars

\* Three saves by alan, beth and alan, the last with the editor staged by
\* set_editor instead of passed: the entries carry them in that order.
C14_Witness ==
    /\ last.op = "save" /\ last.exc = "none" /\ last.kw = NoKw
    /\ \E a, b, c \in filter_queryset_by_pk(history, last.pk) :
        /\ a.history_id = 1 /\ a.history_editor = "alan"
        /\ b.history_id = 2 /\ b.history_editor = "beth"
        /\ c.history_id = 3 /\ c.history_editor = "alan"

\* C15: for a pk without history entries (one the sequence never handed
\* out among them) most_recent(pk) and as_of(t, pk) raise DoesNotExist and
\* return no object.
C15_NoHistoryIsNotFound ==
    \A pk \in 1..(MaxPk + 1) :
        filter_queryset_by_pk(history, pk) = {} =>
            /\ most_recent(pk).exc = "DoesNotExist"
            /\ DOMAIN most_recent(pk) = {"exc"}
            /\ \A t \in Times, restore \in BOOLEAN :
                /\ as_of(t, pk, restore).exc = "DoesNotExist"
                /\ DOMAIN as_of(t, pk, restore) = {"exc"}

\* Another record has a history of three entries; the pk asked for was
\* never handed out.
C15_Witness ==
    /\ history_seq = 3
    /\ Cardinality(history) = 3
    /\ pk_seq < MaxPk + 1
    /\ most_recent(MaxPk + 1) = NotFound
    /\ as_of(3, MaxPk + 1, TRUE) = NotFound

\* C16: created_date, last_modified_date, created_by and last_modified_by
\* asked of a manager without an instance raise TypeError and run no query,
\* whatever the history holds; asked of an instance's manager they raise no
\* TypeError.
C16_UnscopedPropertiesRaise ==
    /\ \A r \in {created_date(Unscoped), last_modified_date(Unscoped),
                 created_by(Unscoped), last_modified_by(Unscoped)} :
          r.exc = "TypeError" /\ r.queries = 0
    /\ \A i \in DOMAIN inst :
          /\ created_date(Scoped(inst[i])).exc # "TypeError"
          /\ last_modified_date(Scoped(inst[i])).exc # "TypeError"
          /\ created_by(Scoped(inst[i])).exc # "TypeError"
          /\ last_modified_by(Scoped(inst[i])).exc # "TypeError"

\* A record saved at two instants: its own manager gives the two dates,
\* the type's manager raises.
C16_Witness ==
    /\ created_date(Unscoped) = UsageError
    /\ last_modified_by(Unscoped) = UsageError
    /\ \E i \in DOMAIN inst :
        /\ inst[i]["id"] \in DOMAIN objects
        /\ created_date(Scoped(inst[i])) = Value(0)
        /\ last_modified_date(Scoped(inst[i])) = Value(2)

\* A step that finalizes a further HistoricalRecords on a type that is in
\* the registry already; the type is last'.kw.
DuplicateFinalize == last'.op = "finalize" /\ last'.kw \in DOMAIN REGISTRY

\* C17 as the specification states it: attaching a second versioning
\* capability to a type that has one fails at registration time and does
\* not take effect: no further receiver is connected, save/delete/__init__
\* are not wrapped again, and the registry keeps the first registration.
C17_SecondRegistrationHasNoEffect ==
    [][ DuplicateFinalize =>
          /\ last'.exc # "none"
          /\ model_class'[last'.kw] = model_class[last'.kw]
          /\ REGISTRY' = REGISTRY ]_vars

\* C17, what the code does: the second finalize raises (from
\* create_set_editor_method) and the registry and app_errors keep what they
\* held, but by then its post_save/post_delete receivers are connected after
\* the first registration's, its descriptor is set and save/delete/__init__
\* are wrapped once more.  A first finalize returns and registers its name.
C17_DuplicateRaisesAfterHooks ==
    [][ last'.op = "finalize" =>
          LET m == last'.kw
              old == model_class[m]
              new == model_class'[m]
          IN  /\ Len(new.receivers) = Len(old.receivers) + 1
              /\ SubSeq(new.receivers, 1, Len(old.receivers)) = old.receivers
              /\ new.wrappers = old.wrappers + 1
              /\ DOMAIN new.descriptors =
                     DOMAIN old.descriptors \cup {new.receivers[Len(new.receivers)]}
              /\ DOMAIN new.descriptors # DOMAIN old.descriptors
              /\ \A o \in Models \ {m} : model_class'[o] = model_class[o]
              /\ IF m \in DOMAIN REGISTRY
                 THEN /\ last'.exc = "Exception"
                      /\ REGISTRY' = REGISTRY
                      /\ app_errors' = app_errors
                 ELSE /\ last'.exc = "none"
                      /\ m \in DOMAIN REGISTRY'
                      /\ REGISTRY'[m] = new.receivers[1]
                      /\ new.set_editor ]_vars

\* A second finalize has raised on a type: two receivers are connected, one
\* name is registered.
C17_Witness ==
    \E m \in Models :
        /\ last = CallKw("finalize", 0, NoPk, "Exception", m)
        /\ Len(model_class[m].receivers) = 2
        /\ model_class[m].wrappers = 2
        /\ REGISTRY[m] = model_class[m].receivers[1]
        /\ REGISTRY[m] # model_class[m].receivers[2]

\* A step in which finalize derived a history model and set its descriptor;
\* NewHistoryFields is the field set of that model.
Derived == last'.op = "finalize" /\ last'.exc # "ValueError"
NewHistoryFields ==
    LET cls == model_class'[last'.kw]
    IN  cls.descriptors[cls.receivers[Len(cls.receivers)]]

\* The conversion-policy map holds a value that is neither policy.
HoldsOtherConversion ==
    \E n \in DOMAIN key_conversions :
        key_conversions[n] \notin {CONVERT, PRESERVE}

\* C18 as the specification states it: when the conversion-policy map holds
\* a value other than CONVERT or PRESERVE under any field name, deriving the
\* schema fails with a configuration error, before any write is captured.
C18_AnyOtherConversionFails ==
    [][ (last'.op = "finalize" /\ HoldsOtherConversion) =>
          /\ last'.exc = "ValueError"
          /\ model_class'[last'.kw].wrappers = model_class[last'.kw].wrappers
          /\ model_class'[last'.kw].descriptors = model_class[last'.kw].descriptors
      ]_vars

\* C18, what the code does: deriving the schema fails with ValueError exactly
\* when a tracked foreign key's policy is neither CONVERT nor PRESERVE; a
\* value under another name, or under a foreign key that is not tracked, is
\* never read.  The failure comes before the descriptor is set, before save,
\* delete and __init__ are wrapped and before the type is registered; the
\* post_save/post_delete receivers are connected by then.
C18_TrackedForeignKeyConversionFails ==
    [][ last'.op = "finalize" =>
          LET m == last'.kw
              bad == /\ "fk_id" \in important_field_names
                     /\ KeyConversion("fk") \notin {CONVERT, PRESERVE}
          IN  /\ bad <=> last'.exc = "ValueError"
              /\ bad => /\ model_class'[m].wrappers = model_class[m].wrappers
                        /\ model_class'[m].descriptors = model_class[m].descriptors
                        /\ model_class'[m].set_editor = model_class[m].set_editor
                        /\ Len(model_class'[m].receivers) =
                               Len(model_class[m].receivers) + 1
                        /\ REGISTRY' = REGISTRY
                        /\ app_errors' = app_errors ]_vars

\* A derivation has failed on a tracked foreign key's policy: nothing but
\* the receiver is installed.
C18_Witness ==
    /\ last.op = "finalize"
    /\ last.exc = "ValueError"
    /\ "fk" \in DOMAIN key_conversions
    /\ key_conversions["fk"] = OtherConversion
    /\ model_class[last.kw].wrappers = 0
    /\ DOMAIN model_class[last.kw].descriptors = {}
    /\ last.kw \notin DOMAIN REGISTRY

\* The declared field a field of the history model was copied from.
SourceName(n) == IF n = "fk_id" THEN "fk" ELSE n
AllFieldNames == {ModelFields[k].name : k \in 1..Len(ModelFields)}

\* C19 as the specification states it: with a restricted set of names
\* configured, the empty one included, the tracked fields are that set and
\* the primary key; with none configured, every field.
C19_TrackedIsRestrictedSetAndKey ==
    [][ Derived =>
          LET tracked == {SourceName(n) : n \in DOMAIN NewHistoryFields}
          IN  IF fields.given
              THEN tracked = fields.names \cup {"id"}
              ELSE tracked = AllFieldNames ]_vars

\* C19, what the code does: with a non-empty list of names configured, the
\* tracked fields are those and the primary key; with none configured, or
\* with the empty list, every field is tracked.
C19_TrackedIsNonEmptySetAndKey ==
    [][ Derived =>
          LET tracked == {SourceName(n) : n \in DOMAIN NewHistoryFields}
          IN  IF fields.given /\ fields.names # {}
              THEN tracked = fields.names \cup {"id"}
              ELSE tracked = AllFieldNames ]_vars

\* A history model was derived under a restricted list that leaves a field
\* out.
C19_Witness ==
    /\ last.op = "finalize"
    /\ last.exc = "none"
    /\ fields = FieldList({"integer"})
    /\ DOMAIN model_class[last.kw].descriptors[REGISTRY[last.kw]] = {"id", "integer"}

\* C20: no field copied into the history model is a primary key or unique,
\* and the copy of the primary key and of every field declared unique is
\* indexed.
C20_NoCopiedFieldIsUnique ==
    [][ Derived =>
          /\ \A n \in DOMAIN NewHistoryFields :
                /\ ~NewHistoryFields[n].primary_key
                /\ ~NewHistoryFields[n]._unique
                /\ NewHistoryFields[n].name = n
                /\ (SourceName(n) \in unique_fields \cup {"id"})
                      => NewHistoryFields[n].db_index
          /\ \A k \in 1..Len(ModelFields) :
                (ModelFields[k].pk /\ Field(ModelFields[k]).class = "AutoField")
                   => NewHistoryFields[ModelFields[k].name].class = "IntegerField"
      ]_vars

\* A history model was derived from a type with a unique field: the copies
\* of the key and of the unique field are plain indexed fields.
C20_Witness ==
    /\ last.op = "finalize"
    /\ last.exc = "none"
    /\ unique_fields = {"integer"}
    /\ LET hf == model_class[last.kw].descriptors[REGISTRY[last.kw]]
       IN  /\ {"id", "integer"} \subseteq DOMAIN hf
           /\ hf["integer"].db_index /\ ~hf["integer"]._unique
           /\ hf["id"].db_index /\ ~hf["id"].primary_key

\* The most recent entry of an identity that has history.
LatestEntry(pk) == First(filter_queryset_by_pk(history, pk))

\* C23 as the specification states it: for every record live in primary
\* storage, as_of(now) succeeds and returns the record's current tracked
\* values, and its most recent entry is not tagged 'deleted'.
C23_LiveRecordIsCurrentInHistory ==
    \A pk \in DOMAIN objects :
        /\ as_of(now, pk, FALSE).exc = "none"
        /\ Tracked(as_of(now, pk, FALSE).obj) = TrackedRow(pk, objects[pk])
        /\ LatestEntry(pk).history_type # DELETED

\* C23, what the code keeps: every live record has history, and its most
\* recent entry holds the record's current tracked values; the entry's tag
\* can be 'deleted' (a restored record saved with the values of its
\* 'deleted' entry gets no new entry), and then as_of(now) raises.
C23_LiveRecordMatchesMostRecent ==
    \A pk \in DOMAIN objects :
        /\ most_recent(pk).exc = "none"
        /\ Tracked(most_recent(pk).obj) = TrackedRow(pk, objects[pk])
        /\ as_of(now, pk, FALSE).exc = "none"
              <=> LatestEntry(pk).history_type # DELETED

\* A record was deleted, restored with get_or_restore and saved: it is live
\* and its history holds a 'deleted' entry.
C23_Witness ==
    /\ last.op = "save"
    /\ last.exc = "none"
    /\ last.pk \in DOMAIN objects
    /\ \E e \in filter_queryset_by_pk(history, last.pk) : e.history_type = DELETED

\* A step that is a write which returned, called without an editor keyword
\* right after another write of the same instance: no set_editor and no
\* construction lies between the two.
BareWriteAfterWrite ==
    /\ WriteCalled
    /\ last'.exc = "none"
    /\ last'.kw = NoKw
    /\ last.op \in {"save", "delete"}
    /\ last.inst = last'.inst

\* C24 as the specification states it: a write given no editor and not
\* preceded by set_editor since the previous write of the instance records
\* a null editor, whatever editors earlier writes used.
C24_EditorIsTransient ==
    [][ BareWriteAfterWrite =>
          \A e \in Added : e.history_editor = None ]_vars

\* C24, what the code does: _history_editor stays on the instance after a
\* write, so a write given no editor records the editor that is staged on
\* the instance, which after a write is that write's editor.
C24_EditorStaysStaged ==
    [][ BareWriteAfterWrite =>
          /\ \A e \in Added : e.history_editor = inst[last'.inst]["_history_editor"]
          /\ inst'[last'.inst]["_history_editor"] = inst[last'.inst]["_history_editor"]
      ]_vars

\* A save without an editor has written an entry that carries the editor of
\* the save before it.
C24_Witness ==
    /\ last.op = "save" /\ last.exc = "none" /\ last.kw = NoKw
    /\ history_seq = 2
    /\ \A e \in history : e.id = last.pk /\ e.history_editor = "alan"
    /\ inst[last.inst]["_history_editor"] = "alan"

\* C25 as the specification states it: with the editor required, every
\* history entry has a non-null editor, the 'deleted' entries of a cascade
\* included.
C25_EveryEntryHasEditor ==
    require_editor => \A e \in history : e.history_editor # None

\* C25, what the code does: with the editor required, the entries written
\* by a save or delete call carry a non-null editor; the 'deleted' entries
\* that a cascade from the referenced record writes carry a null editor (the
\* cascade sends post_delete for instances it loaded itself and calls no
\* delete method).
C25_CascadeEntriesHaveNoEditor ==
    [][ require_editor =>
          \A e \in Added :
             IF last'.op = "delete_parent"
             THEN e.history_editor = None /\ e.history_type = DELETED
             ELSE WriteCalled /\ e.history_editor # None ]_vars

\* With the editor required, a record saved by alan was removed by the
\* cascade: its 'deleted' entry was written.
C25_Witness ==
    /\ require_editor
    /\ last.op = "delete_parent"
    /\ objects = << >>
    /\ \E e \in history : e.history_type = CREATED /\ e.history_editor = "alan"
    /\ \E e \in history : e.history_type = DELETED

\* A step that is m.delete() of a live record which returned and wrote its
\* entry; the record is last'.pk.
DirectDelete ==
    /\ last'.op = "delete"
    /\ last'.exc = "none"
    /\ ~Dangling(last'.pk)

\* C26 as the specification states it: after a delete, most_recent(pk)
\* returns the tracked values of the record's last save; the 'deleted'
\* entry carries the values of the entry before it, also when fields of the
\* instance were changed and not saved before the delete.
C26_DeletedEntryCarriesLastSave ==
    [][ DirectDelete =>
          \E pk \in Pks :
             /\ pk = last'.pk
             /\ (most_recent(pk).exc)' = "none"
             /\ Tracked(most_recent(pk).obj)' = TrackedRow(pk, objects[pk])
             /\ \A e \in Added : Tracked(e) = Tracked(LatestEntry(pk)) ]_vars

\* C26, what the code does: the 'deleted' entry copies the attributes of
\* the instance delete was called on, so after a delete most_recent(pk)
\* returns the in-memory values of that instance, saved or not.
C26_DeletedEntryCarriesInstance ==
    [][ DirectDelete =>
          \E pk \in Pks :
             /\ pk = last'.pk
             /\ (most_recent(pk).exc)' = "none"
             /\ Tracked(most_recent(pk).obj)' =
                    Tracked([inst'[last'.inst] EXCEPT !["id"] = pk]) ]_vars

\* A record was deleted through an instance whose integer was assigned and
\* not saved: most_recent returns the assigned value, the stored one is in
\* the entry before.
C26_Witness ==
    /\ last.op = "delete" /\ last.exc = "none"
    /\ most_recent(last.pk).exc = "none"
    /\ most_recent(last.pk).obj["integer"] = inst[last.inst]["integer"]
    /\ \E e \in filter_queryset_by_pk(history, last.pk) :
          /\ e.history_id + 1 = history_seq
          /\ e["integer"] # inst[last.inst]["integer"]

\* The entry of the smallest history_id of an identity that has history.
EarliestEntry(pk) ==
    CHOOSE e \in filter_queryset_by_pk(history, pk) :
        \A o \in filter_queryset_by_pk(history, pk) : o.history_id >= e.history_id

\* The instances whose identity has history.
WithHistory ==
    {i \in DOMAIN inst : filter_queryset_by_pk(history, inst[i]["id"]) # {}}

\* C27 as the specification states it: on an instance's accessor,
\* last_modified_by is the editor of the entry with the largest sequence id
\* and created_by that of the entry with the smallest, also when entries
\* share a timestamp.
C27_TieBrokenBySequence ==
    \A i \in WithHistory :
        /\ last_modified_by(Scoped(inst[i])).among =
               {LatestEntry(inst[i]["id"]).history_editor}
        /\ created_by(Scoped(inst[i])).among =
               {EarliestEntry(inst[i]["id"]).history_editor}

\* C27, what the code does: both properties order by history_date alone.
\* The editor of the entry with the largest (smallest) sequence id is among
\* the possible results, and is the only one when no entry of another
\* editor shares its timestamp; when one does, either editor can be
\* returned.
C27_TieLeftToStorage ==
    \A i \in WithHistory :
        LET pk == inst[i]["id"]
            qs == filter_queryset_by_pk(history, pk)
            tied(e) == {o.history_editor : o \in
                           {o \in qs : o.history_date = e.history_date}}
        IN  /\ last_modified_by(Scoped(inst[i])).among = tied(LatestEntry(pk))
            /\ created_by(Scoped(inst[i])).among = tied(EarliestEntry(pk))
            /\ \A e, o \in qs : e.history_id <= o.history_id
                                   => e.history_date <= o.history_date

\* Two saves of one record by different users within one reading of the
\* clock, and a third at a later reading.
C27_Witness ==
    \E i \in WithHistory :
        \E a, b, c \in filter_queryset_by_pk(history, inst[i]["id"]) :
            /\ a.history_id = 1 /\ b.history_id = 2 /\ c.history_id = 3
            /\ a.history_date = b.history_date
            /\ a.history_editor # b.history_editor
            /\ c.history_date > b.history_date

\* C21: a history entry's copy of an auto-populated date field is the value
\* the primary record held at the write that produced the entry, never one
\* generated when the entry is inserted: the auto-on-create field has the
\* same value in every entry of a record, and the largest auto-on-update
\* value in the history equals the live record's value.
EntriesOf(pk) == filter_queryset_by_pk(history, pk)

LargestAutoNow(pk) ==
    CHOOSE t \in {e["auto_now_datetime"] : e \in EntriesOf(pk)} :
        \A e \in EntriesOf(pk) : e["auto_now_datetime"] <= t

\* The statement as made: one auto-on-create value per record.
C21_AutoOnCreateSameInEveryEntry ==
    \A pk \in Pks :
        /\ \A e, f \in EntriesOf(pk) :
              e["auto_now_add_datetime"] = f["auto_now_add_datetime"]
        /\ pk \in DOMAIN objects /\ EntriesOf(pk) # {} =>
              LargestAutoNow(pk) = objects[pk]["auto_now_datetime"]

\* What the code gives: each entry written by a save copies both date values
\* of the row the save wrote, each 'deleted' entry those of the row removed;
\* the largest auto-on-update value equals the live record's; and the
\* auto-on-create value is the same in the entries that no later insert of
\* the record ('created' entry) separates.
C21_AutoDatesCopiedFromPrimary ==
    /\ [][\A e \in history' \ history :
            LET row == IF e["id"] \in DOMAIN objects' THEN objects'[e["id"]]
                       ELSE objects[e["id"]]
            IN  /\ e["auto_now_datetime"] = row["auto_now_datetime"]
                /\ e["auto_now_add_datetime"] = row["auto_now_add_datetime"]]_vars
    /\ [](\A pk \in Pks :
            /\ pk \in DOMAIN objects /\ EntriesOf(pk) # {} =>
                  LargestAutoNow(pk) = objects[pk]["auto_now_datetime"]
            /\ \A e, f \in EntriesOf(pk) :
                  (/\ e["history_id"] < f["history_id"]
                   /\ \A g \in EntriesOf(pk) :
                         /\ e["history_id"] < g["history_id"]
                         /\ g["history_id"] <= f["history_id"]
                         => g["history_type"] # CREATED)
                  => e["auto_now_add_datetime"] = f["auto_now_add_datetime"])

\* An update's entry after the clock has advanced: a later auto-on-update
\* value, the same auto-on-create value, and an earlier entry whose insert
\* read the clock after its date fields were populated.
C21_Witness ==
    \E e, f \in history :
        /\ e["id"] = f["id"]
        /\ e["history_id"] < f["history_id"]
        /\ f["history_type"] = MODIFIED
        /\ f["auto_now_datetime"] > e["auto_now_datetime"]
        /\ f["auto_now_add_datetime"] = e["auto_now_add_datetime"]
        /\ e["history_date"] > e["auto_now_datetime"]

\* C22: modified_fields of an entry compares it with its previous entry,
\* the entry of the same identity with the largest sequence id below its
\* own: one (field, from, to) triple for exactly the tracked fields whose
\* values differ, in tracked-field order; without a previous entry, a triple
\* for every tracked field with a null from-value.
EarlierEntries(e) ==
    {p \in history : p["id"] = e["id"] /\ p["history_id"] < e["history_id"]}

\* The position of a name among the tracked field names.
TrackedPosition(f) ==
    CHOOSE k \in 1..Len(get_important_field_names) :
        get_important_field_names[k] = f

Agrees(pk) ==
    IF pk \in DOMAIN objects
    THEN /\ EntriesOf(pk) # {}
         /\ LatestEntry(pk)["history_type"] # DELETED
         /\ \A f \in important_field_names \ {"id"} :
               LatestEntry(pk)[f] = objects[pk][f]
    ELSE EntriesOf(pk) # {} => LatestEntry(pk)["history_type"] = DELETED

\* The statement as made: every state that can be observed agrees.
C28_PrimaryAndHistoryAlwaysAgree == \A pk \in Pks : Agrees(pk)

\* What the code gives: an entry is inserted only by a writer whose primary
\* write has taken effect, in a later statement of the same call; a call
\* that raises leaves storage and history as they are; and a writer's call
\* returns from its signal only with the entry inserted or (after a save)
\* found unwarranted.
C28_EntryFollowsItsWrite ==
    [][/\ \A e \in history' \ history :
             \E w \in Writers :
                /\ last'.inst = w
                /\ writers[w].pc \in {"compared", "removed"}
                /\ writers'[w].pc = "idle"
                /\ e["id"] = last'.pk
                /\ (e["history_type"] = DELETED) = (writers[w].pc = "removed")
       /\ last'.exc # "none" =>
             /\ history' = history
             /\ objects' = objects
             /\ writers' = writers
       /\ \A w \in Writers :
             /\ writers[w].pc \in {"compared", "removed"}
             /\ writers'[w].pc = "idle"
             => history' # history]_vars

\* A state another reader can observe: a writer's primary write has taken
\* effect and its entry is not yet inserted, so the live record's tracked
\* value is in no entry.
C28_Witness ==
    \E w \in Writers :
        /\ writers[w].pc = "written"
        /\ inst[w]["id"] \in DOMAIN objects
        /\ \A e \in EntriesOf(inst[w]["id"]) :
              e["integer"] # objects[inst[w]["id"]]["integer"]

\* C29: under every interleaving of two writers saving the same identity
\* (primary write, read of the most recent entry, comparison and insert as
\* separate steps), each entry written carries exactly the tracked values of
\* one writer's save, no entry written before is changed or removed, and
\* the race affects only how many entries are added: a save adds no entry or
\* one, decided by the entry it read, which may no longer be the most recent.
C29_RaceAffectsOnlyTheNumberOfEntries ==
    [][/\ history \subseteq history'
       /\ Cardinality(history' \ history) <= 1
       /\ \A e \in history' \ history :
             \E w \in Writers :
                /\ writers[w].pc \in {"compared", "removed"}
                /\ writers'[w].pc = "idle"
                /\ \A f \in important_field_names : e[f] = inst[w][f]
                /\ e["history_id"] = history_seq + 1
       /\ \A w \in Writers :
             writers[w].pc = "read" /\ writers'[w].pc # "read" =>
                LET differs == \/ writers[w].mr.exc = "DoesNotExist"
                               \/ \E f \in important_field_names :
                                     inst[w][f] # writers[w].mr.obj[f]
                IN  writers'[w].pc = IF differs THEN "compared" ELSE "idle"]_vars

\* A lost race that added two entries: consecutive 'changed' entries of the
\* record with the same tracked values, both writers back from their calls.
C29_Witness ==
    /\ \A w \in Writers : writers[w].pc = "idle"
    /\ \E e, f \in history :
          /\ e["id"] = f["id"]
          /\ f["history_id"] = e["history_id"] + 1
          /\ e["history_type"] = MODIFIED
          /\ f["history_type"] = MODIFIED
          /\ \A a \in important_field_names : e[a] = f[a]

====
